---- MODULE Spec2Model ----
(***************************************************************************)
(* Model of streamlit_app/app.py: a Streamlit dashboard over a cached      *)
(* table of book listings.  Streamlit re-executes the whole script, top to *)
(* bottom, on every widget interaction; one action of this model is one    *)
(* widget change followed by the complete re-execution of the script.      *)
(*                                                                         *)
(* Representation                                                          *)
(*  - a DataFrame row is a record of the columns the script reads; a       *)
(*    missing cell is NaN (strings) or NaNum (numbers);                    *)
(*  - a derived frame (filtered_df) is the sequence of the index labels it *)
(*    kept, as pandas keeps the original index under boolean masking;      *)
(*  - Rating and the slider positions are integers in units of the slider  *)
(*    step (0.1);                                                          *)
(*  - a group mean is the pair (sum, n), compared by cross-multiplication; *)
(*  - an uncaught exception ends the run: `raised` names it and every      *)
(*    later section stays "not_run".                                       *)
(*  - pandas sorts (value_counts, sort_values) use the default, unstable   *)
(*    sort kind: the order among equal keys is not fixed by the code, so   *)
(*    each run picks one of the outcomes in TieOutcomes.                   *)
(***************************************************************************)
EXTENDS FiniteSets, Integers, Sequences, TLC

\* ------------------------------------------------------------------ bounds
\* most rows of a short table
MaxRows == 2

\* most rows that follow the ten-author block of a long table
MaxExtra == 1

\* ------------------------------------------------------- program constants
\* .head(10) of the author counts
TopN == 10

\* the columns the correlation tab asks for, in the requested order
numeric_cols == <<"Price", "Rating", "No. of People rated">>

\* ------------------------------------------------------------ value domain
NaN == "NaN"
NaNum == -1

AllColumns ==
    {"Type", "Main Genre", "Author", "Rating", "No. of People rated",
     "Price", "Price_outlier"}

\* columns every modelled table has; the numeric ones and the outlier flag
\* may each be absent from the file
BaseColumns == {"Type", "Main Genre", "Author"}

\* the files with every column the script reads, with and without the
\* optional outlier flag
FullColumnSets == {AllColumns, AllColumns \ {"Price_outlier"}}

\* the column layouts a loaded file can have: the full ones, and files that
\* lack some of the numeric columns
ColumnSets ==
    FullColumnSets \cup
    {BaseColumns \cup extra :
        extra \in {{"Price", "Rating"}, {"Rating"}, {"No. of People rated"}, {}}}

\* lexicographic order of the labels, as Python's sorted() and groupby see it
LabelOrder == <<"Children", "Fiction", "History", "Nonfiction">>

LabelRank(l) == CHOOSE k \in 1..Len(LabelOrder) : LabelOrder[k] = l

Row(t, g, a, r, p, o) ==
    [Type |-> t, MainGenre |-> g, Author |-> a, Rating |-> r, Price |-> p,
     Price_outlier |-> o]

\* rows a table's free tail is drawn from: every predicate of the filter
\* has rows on both sides, and each of Type, Main Genre, Author and Rating
\* is missing in some row
RowPool ==
    { Row("Fiction",    "History",  "A01", 2,     3, FALSE),
      Row("Fiction",    "Children", "A11", 1,     1, TRUE),
      Row("Nonfiction", "History",  "A11", 1,     2, FALSE),
      Row("Nonfiction", "Children", NaN,   2,     1, TRUE),
      Row(NaN,          "History",  "A01", 1,     2, FALSE),
      Row("Fiction",    NaN,        "A01", 2,     2, FALSE),
      Row("Nonfiction", "History",  "A11", NaNum, 1, FALSE) }

\* a block of rows by TopN different authors, mixed in every column the
\* filter reads, one author with a second book and one row without author
TenAuthors ==
    << Row("Fiction",    "History",  "A01", 2, 2, FALSE),
       Row("Nonfiction", "History",  "A02", 1, 3, FALSE),
       Row("Fiction",    "Children", "A03", 1, 1, FALSE),
       Row("Nonfiction", "History",  "A04", 2, 2, FALSE),
       Row("Fiction",    "History",  "A05", 2, 3, TRUE),
       Row("Nonfiction", "Children", "A06", 1, 1, FALSE),
       Row("Fiction",    "History",  "A07", 1, 2, FALSE),
       Row("Nonfiction", "History",  "A08", 2, 3, FALSE),
       Row("Fiction",    "Children", "A09", 1, 1, FALSE),
       Row("Nonfiction", "History",  "A10", 1, 2, TRUE),
       Row("Fiction",    "History",  "A03", 2, 1, FALSE),
       Row("Nonfiction", "Children", NaN,   1, 2, FALSE) >>

Tails(most) == UNION {[1..n -> RowPool] : n \in 0..most}

\* what read_csv yields for a file that has only the columns cols
Project(r, cols) ==
    [Type |-> r.Type, MainGenre |-> r.MainGenre, Author |-> r.Author,
     Rating |-> IF "Rating" \in cols THEN r.Rating ELSE NaNum,
     Price |-> IF "Price" \in cols THEN r.Price ELSE NaNum,
     Price_outlier |-> IF "Price_outlier" \in cols THEN r.Price_outlier ELSE FALSE]

\* the tables a session can load: non-empty, and with at least one rating
\* when the Rating column exists (the slider needs finite bounds)
Datasets(cols, pre, most) ==
    { d \in { [i \in 1..Len(pre \o t) |-> Project((pre \o t)[i], cols)] :
                t \in Tails(most) } :
        /\ Len(d) > 0
        /\ ("Rating" \in cols => \E i \in 1..Len(d) : d[i].Rating # NaNum) }

\* ------------------------------------------------------------ pandas helpers
Min2(a, b) == IF a <= b THEN a ELSE b

Range(s) == {s[i] : i \in 1..Len(s)}

\* a function over 1..n as an explicit tuple
AsSeq(f) == f \o << >>

Reverse(s) == AsSeq([i \in 1..Len(s) |-> s[Len(s) + 1 - i]])

\* Series.isin(values): membership of the cell in the selected values
isin(v, values) == v \in values

\* Series >= scalar and Series <= scalar; a comparison with NaN is False
ge(x, y) == x # NaNum /\ y # NaNum /\ x >= y

le(x, y) == x # NaNum /\ y # NaNum /\ x <= y

\* boolean indexing that returns the kept rows last-first
boolean_index_reversed(frame, mask) ==
    Reverse(SelectSeq(frame, LAMBDA i : i \in mask))

\* frame[mask]: the labels of frame whose mask is True, in frame order
boolean_index(frame, mask) == SelectSeq(frame, LAMBDA i : i \in mask)

\* .head(n)
head(s, n) == SubSeq(s, 1, Min2(n, Len(s)))

\* sort_values(ascending=False) under the default sort kind: the entries of
\* s0 in descending order of their keys, key0[i] = <<num, den>> standing for
\* num / den; among equal keys the outcome `tie` keeps input order ("first")
\* or reverses it ("last")
sort_values_desc(s0, key0, tie) ==
    LET s == IF tie = "first" THEN AsSeq(s0) ELSE Reverse(s0)
        key == IF tie = "first" THEN AsSeq(key0) ELSE Reverse(key0)
        n == Len(s)
        Gt(i, j) == key[i][1] * key[j][2] > key[j][1] * key[i][2]
        Eq(i, j) == key[i][1] * key[j][2] = key[j][1] * key[i][2]
        rank == AsSeq([i \in 1..n |->
                    1 + Cardinality({j \in 1..n : Gt(j, i)})
                      + Cardinality({j \in 1..(i - 1) : Eq(j, i)})])
    IN  AsSeq([k \in 1..n |-> s[CHOOSE i \in 1..n : rank[i] = k]])

TieOutcomes == {"first", "last"}

\* the distinct values of s in first-encountered order (hash-table order)
unique(s) ==
    LET first == SelectSeq([i \in 1..Len(s) |-> i],
                           LAMBDA i : \A j \in 1..(i - 1) : s[j] # s[i])
    IN  AsSeq([k \in 1..Len(first) |-> s[first[k]]])

\* ascending sort of a set of labels
sorted(labels) ==
    LET n == Cardinality(labels)
    IN  [k \in 1..n |->
            CHOOSE l \in labels :
                Cardinality({m \in labels : LabelRank(m) < LabelRank(l)}) = k - 1]

\* ------------------------------------------------------------- 1) load data
\* a loader that drops incomplete rows on every call
load_data_dropna(cached) ==
    SelectSeq(cached, LAMBDA r : r.Type # NaN /\ r.MainGenre # NaN /\ r.Author # NaN)

\* st.cache_data: every run gets the table parsed from the file once
load_data(cached) == cached

\* ------------------------------------------------------- 3) sidebar filters
\* types without the dropna(): NaN becomes a selectable value
types_keep_nan(d) == {d[i].Type : i \in 1..Len(d)}

\* df["Type"].dropna().unique()
types(d) == {d[i].Type : i \in 1..Len(d)} \ {NaN}

\* df["Main Genre"].dropna().unique()
genres(d) == {d[i].MainGenre : i \in 1..Len(d)} \ {NaN}

\* df["Rating"].min(), skipping NaN
min_rating(d) ==
    CHOOSE m \in {d[i].Rating : i \in 1..Len(d)} \ {NaNum} :
        \A i \in 1..Len(d) : d[i].Rating # NaNum => m <= d[i].Rating

\* df["Rating"].max(), skipping NaN
max_rating(d) ==
    CHOOSE m \in {d[i].Rating : i \in 1..Len(d)} \ {NaNum} :
        \A i \in 1..Len(d) : d[i].Rating # NaNum => m >= d[i].Rating

\* the positions the range slider can return
SliderValues(d) ==
    {<<lo, hi>> \in (min_rating(d)..max_rating(d)) \X (min_rating(d)..max_rating(d)) :
        lo <= hi}

\* the control with the else branch defaulting to True
exclude_outliers_control_on(cols, checkbox) ==
    IF "Price_outlier" \in cols THEN checkbox ELSE TRUE

\* the outlier checkbox exists only if the column does
exclude_outliers_control(cols, checkbox) ==
    IF "Price_outlier" \in cols THEN checkbox ELSE FALSE

\* ------------------------------------------------------------ apply filters
\* df.copy(): a fresh frame holding every row of the loaded table
df_copy(d) == AsSeq([i \in 1..Len(d) |-> i])

\* the Type mask skipped when nothing is selected
type_mask_skip_empty(d, i, sel_types) ==
    sel_types = {} \/ isin(d[i].Type, sel_types)

type_mask(d, i, sel_types) == isin(d[i].Type, sel_types)

genre_mask(d, i, sel_genres) == isin(d[i].MainGenre, sel_genres)

\* the rating mask with an exclusive upper bound
rating_mask_strict(d, i, rr) == ge(d[i].Rating, rr[1]) /\ d[i].Rating < rr[2]

rating_mask(d, i, rr) == ge(d[i].Rating, rr[1]) /\ le(d[i].Rating, rr[2])

\* the four-way conjunction, then the optional outlier step
apply_filters(d, cols, sel_types, sel_genres, rr, excl) ==
    LET frame == df_copy(d)
        kept == boolean_index(frame,
                    {i \in Range(frame) : /\ type_mask(d, i, sel_types)
                                          /\ genre_mask(d, i, sel_genres)
                                          /\ rating_mask(d, i, rr)})
    IN  IF excl /\ "Price_outlier" \in cols
        THEN boolean_index(kept, {i \in Range(kept) : ~d[i].Price_outlier})
        ELSE kept

\* ------------------------------------------------------------- aggregations
Cell(r, col) ==
    CASE col = "Type" -> r.Type
      [] col = "Main Genre" -> r.MainGenre
      [] col = "Author" -> r.Author
      [] col = "Rating" -> r.Rating
      [] col = "Price" -> r.Price

SumSeq(s) ==
    LET acc[k \in 0..Len(s)] == IF k = 0 THEN 0 ELSE acc[k - 1] + s[k]
    IN  acc[Len(s)]

\* group labels taken from the whole table instead of the frame
group_keys_of_table(d, frame, by) ==
    sorted({Cell(d[i], by) : i \in 1..Len(d)} \ {NaN})

\* the group labels groupby forms: the labels observed in the frame, NaN
\* dropped, in sorted order
group_keys(d, frame, by) ==
    sorted({Cell(d[frame[k]], by) : k \in 1..Len(frame)} \ {NaN})

\* groupby(by, as_index=False)[val].mean().sort_values(val, ascending=False)
\* an entry carries the group's sum and row count: its mean is sum / n
groupby_mean(d, frame, by, val, tie) ==
    LET keys == group_keys(d, frame, by)
        entry(key) ==
            LET members == SelectSeq(frame, LAMBDA i : Cell(d[i], by) = key)
            IN  [key |-> key,
                 sum |-> SumSeq([k \in 1..Len(members) |-> Cell(d[members[k]], val)]),
                 n |-> Len(members)]
        table == AsSeq([k \in 1..Len(keys) |-> entry(keys[k])])
    IN  sort_values_desc(table,
                         [k \in 1..Len(table) |-> <<table[k].sum, table[k].n>>], tie)

\* Series.value_counts(): NaN dropped, one entry per distinct value in
\* first-encountered order, then sorted by count, descending
value_counts(d, frame, col, tie) ==
    LET vals == SelectSeq([k \in 1..Len(frame) |-> Cell(d[frame[k]], col)],
                          LAMBDA v : v # NaN)
        keys == unique(vals)
        table == AsSeq([k \in 1..Len(keys) |->
                    [key |-> keys[k],
                     count |-> Cardinality({j \in 1..Len(vals) : vals[j] = keys[k]})]])
    IN  sort_values_desc(table, [k \in 1..Len(table) |-> <<table[k].count, 1>>], tie)

\* the author counts without the head(10)
top_authors_unbounded(d, frame, tie) == value_counts(d, frame, "Author", tie)

\* filtered_df["Author"].value_counts().head(10)
top_authors(d, frame, tie) == head(value_counts(d, frame, "Author", tie), TopN)

\* [c for c in numeric_cols if c in filtered_df.columns]
existing_numeric(cols) == SelectSeq(numeric_cols, LAMBDA c : c \in cols)

\* -------------------------------------------------------- one run of app.py
Sections ==
    {"describe", "price_hist", "avg_price_type", "rating_hist",
     "price_vs_rating", "price_vs_people", "top_authors", "avg_rating_genre",
     "corr"}

\* the guard `if not filtered_df.empty: ... else: st.info(...)`
guarded(reached, frame) ==
    IF ~reached THEN "not_run"
    ELSE IF frame # << >> THEN "output" ELSE "no_data"

\* a section that renders whatever the frame holds
unguarded(reached, frame) == IF reached THEN "output" ELSE "not_run"

\* the correlation tab
corr_section(reached, cols) ==
    IF ~reached THEN "not_run"
    ELSE IF Len(existing_numeric(cols)) >= 2 THEN "output"
    ELSE "insufficient_columns"

\* The script from line 15 to its end, for the widget values given.
\* df["Rating"] (line 53) and filtered_df["Price"] (line 107) raise KeyError
\* when the column is absent; the scatter plot of line 175 raises ValueError
\* when "No. of People rated" is absent.
Script(d, cols, sel_types, sel_genres, rr, checkbox, tie) ==
    LET at54 == "Rating" \in cols
        at108 == at54 /\ "Price" \in cols
        at176 == at108 /\ "No. of People rated" \in cols
        excl == IF at54 THEN exclude_outliers_control(cols, checkbox) ELSE checkbox
        view == IF at54
                THEN apply_filters(d, cols, sel_types, sel_genres, rr, excl)
                ELSE << >>
    IN  [ exclude_outliers |-> excl,
          filtered_df |-> view,
          raised |-> IF ~at54 THEN "KeyError_Rating"
                     ELSE IF ~at108 THEN "KeyError_Price"
                     ELSE IF ~at176 THEN "ValueError_People"
                     ELSE "none",
          out |-> [ describe |-> unguarded(at108, view),
                    price_hist |-> unguarded(at108, view),
                    avg_price_type |-> guarded(at108, view),
                    rating_hist |-> unguarded(at108, view),
                    price_vs_rating |-> unguarded(at108, view),
                    price_vs_people |-> unguarded(at176, view),
                    top_authors |-> guarded(at176, view),
                    avg_rating_genre |-> guarded(at176, view),
                    corr |-> corr_section(at176, cols) ],
          avg_price_type |->
              IF at108 /\ view # << >>
              THEN groupby_mean(d, view, "Type", "Price", tie)
              ELSE << >>,
          author_counts |->
              IF at176 /\ view # << >> THEN top_authors(d, view, tie) ELSE << >>,
          avg_rating_genre |->
              IF at176 /\ view # << >>
              THEN groupby_mean(d, view, "Main Genre", "Rating", tie)
              ELSE << >>,
          corr_columns |->
              IF at176 /\ Len(existing_numeric(cols)) >= 2
              THEN existing_numeric(cols)
              ELSE << >> ]

\* ---------------------------------------------------------------- the state
VARIABLES
    columns,            \* df.columns
    df,                 \* the cached table
    selected_types,     \* the Book Type multiselect
    selected_genres,    \* the Main Genre multiselect
    rating_range,       \* the slider, <<lo, hi>>
    exclude_outliers,   \* the script's exclude_outliers
    filtered_df,        \* index labels of the filtered view
    raised,             \* the exception that ended the last run, or "none"
    out,                \* what each display section emitted in the last run
    avg_price_type,     \* the table of line 126
    author_counts,      \* the table of line 195
    avg_rating_genre,   \* the table of line 221
    corr_columns        \* the columns of the matrix of line 254

vars ==
    <<columns, df, selected_types, selected_genres, rating_range,
      exclude_outliers, filtered_df, raised, out, avg_price_type,
      author_counts, avg_rating_genre, corr_columns>>

\* the slider's default, value=(min_rating, max_rating); no slider is built
\* when line 53 raises
default_rating(d, cols) ==
    IF "Rating" \in cols THEN <<min_rating(d), max_rating(d)>> ELSE <<NaNum, NaNum>>

\* the assignments a run makes to the script's variables and outputs
Ran(r) ==
    /\ exclude_outliers' = r.exclude_outliers
    /\ filtered_df' = r.filtered_df
    /\ raised' = r.raised
    /\ out' = r.out
    /\ avg_price_type' = r.avg_price_type
    /\ author_counts' = r.author_counts
    /\ avg_rating_genre' = r.avg_rating_genre
    /\ corr_columns' = r.corr_columns

\* first run of a session on the table d: every widget is at its default
FirstRun(cols, d, tie) ==
    LET r == Script(d, cols, types(d), genres(d), default_rating(d, cols),
                    FALSE, tie)
    IN  /\ columns = cols
        /\ df = d
        /\ selected_types = types(d)
        /\ selected_genres = genres(d)
        /\ rating_range = default_rating(d, cols)
        /\ exclude_outliers = r.exclude_outliers
        /\ filtered_df = r.filtered_df
        /\ raised = r.raised
        /\ out = r.out
        /\ avg_price_type = r.avg_price_type
        /\ author_counts = r.author_counts
        /\ avg_rating_genre = r.avg_rating_genre
        /\ corr_columns = r.corr_columns

\* a session over a short table of any column layout
Init ==
    \E cols \in ColumnSets : \E d \in Datasets(cols, << >>, MaxRows) :
        \E tie \in TieOutcomes : FirstRun(cols, d, tie)

\* a session over a complete table of TopN authors and more
InitAuthors ==
    \E d \in Datasets(AllColumns, TenAuthors, MaxExtra) :
        \E tie \in TieOutcomes : FirstRun(AllColumns, d, tie)

\* the user changes the Book Type multiselect; the script reruns
ChangeTypes ==
    \E sel \in SUBSET types(df) : \E tie \in TieOutcomes :
        /\ sel # selected_types
        /\ selected_types' = sel
        /\ df' = load_data(df)
        /\ UNCHANGED <<columns, selected_genres, rating_range>>
        /\ Ran(Script(df', columns, sel, selected_genres, rating_range,
                      exclude_outliers, tie))

\* the user changes the Main Genre multiselect; the script reruns
ChangeGenres ==
    \E sel \in SUBSET genres(df) : \E tie \in TieOutcomes :
        /\ sel # selected_genres
        /\ selected_genres' = sel
        /\ df' = load_data(df)
        /\ UNCHANGED <<columns, selected_types, rating_range>>
        /\ Ran(Script(df', columns, selected_types, sel, rating_range,
                      exclude_outliers, tie))

\* the user moves the rating slider (built only if line 53 did not raise)
ChangeRating ==
    /\ raised # "KeyError_Rating"
    /\ \E rr \in SliderValues(df) : \E tie \in TieOutcomes :
        /\ rr # rating_range
        /\ rating_range' = rr
        /\ df' = load_data(df)
        /\ UNCHANGED <<columns, selected_types, selected_genres>>
        /\ Ran(Script(df', columns, selected_types, selected_genres, rr,
                      exclude_outliers, tie))

\* the user ticks or unticks the outlier checkbox (built only if the column
\* exists and the run got as far as line 63)
ToggleOutliers ==
    /\ raised # "KeyError_Rating"
    /\ "Price_outlier" \in columns
    /\ \E tie \in TieOutcomes :
        /\ df' = load_data(df)
        /\ UNCHANGED <<columns, selected_types, selected_genres, rating_range>>
        /\ Ran(Script(df', columns, selected_types, selected_genres,
                      rating_range, ~exclude_outliers, tie))

Next == ChangeTypes \/ ChangeGenres \/ ChangeRating \/ ToggleOutliers

Spec == Init /\ [][Next]_vars

SpecAuthors == InitAuthors /\ [][Next]_vars

\* ============================================================ properties
\* the filter has been computed in the last run (line 53 did not raise)
FilterRan == raised # "KeyError_Rating"

Rows == 1..Len(df)

\* the three predicates every run applies, read off the loaded table
Matches(i) ==
    /\ df[i].Type \in selected_types
    /\ df[i].MainGenre \in selected_genres
    /\ df[i].Rating # NaNum
    /\ rating_range[1] <= df[i].Rating
    /\ df[i].Rating <= rating_range[2]

\* the rows the specification of the filter keeps
ExpectedRows ==
    {i \in Rows :
        /\ Matches(i)
        /\ (exclude_outliers /\ "Price_outlier" \in columns => ~df[i].Price_outlier)}

Kept == Range(filtered_df)

\* C1: the filtered view holds exactly the rows whose Type and Main Genre
\* are selected, whose Rating lies in [lo, hi] with both bounds inclusive
\* and, when outliers are excluded and the column exists, whose
\* Price_outlier is false; each such row once, and no other row.
C1_FilterExact ==
    FilterRan => /\ Kept = ExpectedRows
                 /\ Len(filtered_df) = Cardinality(Kept)

\* a run that excluded outliers, kept a row whose Rating equals hi and one
\* whose Rating equals lo, and dropped a row for its outlier flag alone
C1_Witness ==
    /\ FilterRan
    /\ exclude_outliers
    /\ \E i \in Kept : df[i].Rating = rating_range[2]
    /\ \E i \in Kept : df[i].Rating = rating_range[1]
    /\ \E j \in Rows \ Kept : Matches(j) /\ df[j].Price_outlier

\* C3: the rows of the filtered view are in Dataset order, also after the
\* outlier step.
C3_OrderPreserved ==
    \A a, b \in 1..Len(filtered_df) : a < b => filtered_df[a] < filtered_df[b]

\* a run that excluded outliers and kept several rows with dropped rows
\* between them
C3_Witness ==
    /\ exclude_outliers
    /\ Len(filtered_df) >= 3
    /\ \E j \in Rows \ Kept : filtered_df[1] < j /\ j < filtered_df[2]
    /\ \E j \in Rows \ Kept : Matches(j) /\ j < filtered_df[Len(filtered_df)]

\* C4: with no Type or no Main Genre selected the filtered view is empty,
\* whatever the table and the other parameters, and the filter completes.
C4_EmptySelection ==
    ("Rating" \in columns /\ (selected_types = {} \/ selected_genres = {}))
        => FilterRan /\ filtered_df = << >>

\* a run with no Type selected over rows that pass the other two predicates
C4_Witness ==
    /\ FilterRan
    /\ selected_types = {}
    /\ selected_genres # {}
    /\ \E i \in Rows : /\ df[i].Type # NaN
                       /\ df[i].MainGenre \in selected_genres
                       /\ rating_range[1] <= df[i].Rating
                       /\ df[i].Rating <= rating_range[2]

\* C5: without a Price_outlier column exclude_outliers is false in every
\* run, the filtered view is decided by the Type, Main Genre and Rating
\* predicates alone, and the sidebar and the filter complete.
C5_NoOutlierColumn ==
    "Price_outlier" \notin columns
        => /\ exclude_outliers = FALSE
           /\ ("Rating" \in columns => FilterRan /\ Kept = {i \in Rows : Matches(i)})

\* a run over a table without the column, after the user narrowed the types
C5_Witness ==
    /\ "Price_outlier" \notin columns
    /\ FilterRan
    /\ selected_types # {}
    /\ \E i \in Rows : df[i].Type # NaN /\ df[i].Type \notin selected_types
    /\ filtered_df # << >>

\* C10: no row with a missing Type, Main Genre or Rating is ever in the
\* filtered view; under the default parameters the view is the Dataset minus
\* exactly those rows.
Complete(i) ==
    df[i].Type # NaN /\ df[i].MainGenre # NaN /\ df[i].Rating # NaNum

DefaultParameters ==
    /\ \A i \in Rows : df[i].Type # NaN => df[i].Type \in selected_types
    /\ \A i \in Rows : df[i].MainGenre # NaN => df[i].MainGenre \in selected_genres
    /\ \A i \in Rows : df[i].Rating # NaNum =>
            rating_range[1] <= df[i].Rating /\ df[i].Rating <= rating_range[2]
    /\ ~exclude_outliers

C10_MissingNeverKept ==
    FilterRan => /\ \A i \in Kept : Complete(i)
                 /\ (DefaultParameters => Kept = {i \in Rows : Complete(i)})

\* a default run over a table with a complete row and an incomplete one
C10_Witness ==
    /\ FilterRan
    /\ DefaultParameters
    /\ filtered_df # << >>
    /\ \E i \in Rows : ~Complete(i)

\* every column the script reads unconditionally is in the file
CompleteFile == AllColumns \ {"Price_outlier"} \subseteq columns

\* C2: when the filters exclude every row, each display section emits the
\* "no data" signal instead of an aggregation output, and the run raises
\* nothing.
C2_EmptyViewSignalsNoData ==
    (CompleteFile /\ FilterRan /\ filtered_df = << >>)
        => /\ raised = "none"
           /\ \A sec \in Sections : out[sec] = "no_data"

\* the requested numeric columns the file has
NumericPresent == {c \in Range(numeric_cols) : c \in columns}

\* C6: with fewer than two of the requested numeric columns in the file the
\* run ends with the correlation section signalling "insufficient columns"
\* and no matrix, empty view or not; with two or more the matrix is computed
\* over the existing requested columns in the requested order.
C6_InsufficientColumnsSignal ==
    /\ Cardinality(NumericPresent) < 2
         => out.corr = "insufficient_columns" /\ corr_columns = << >>
    /\ Cardinality(NumericPresent) >= 2
         => /\ out.corr = "output"
            /\ Range(corr_columns) = NumericPresent
            /\ Len(corr_columns) = Cardinality(NumericPresent)
            /\ \A a, b \in 1..Len(corr_columns) :
                 a < b => \E x, y \in 1..Len(numeric_cols) :
                            /\ x < y
                            /\ numeric_cols[x] = corr_columns[a]
                            /\ numeric_cols[y] = corr_columns[b]

\* the authors of the filtered view, and how many kept rows each has
FilteredAuthors == {df[i].Author : i \in Kept} \ {NaN}

AuthorCount(a) == Cardinality({i \in Kept : df[i].Author = a})

\* position in the filtered view of an author's first row
FirstSeen(a) ==
    CHOOSE k \in 1..Len(filtered_df) :
        /\ df[filtered_df[k]].Author = a
        /\ \A j \in 1..(k - 1) : df[filtered_df[j]].Author # a

Listed == {author_counts[k].key : k \in 1..Len(author_counts)}

\* the part of C7 that does not depend on how ties fall
TopAuthorsTable ==
    /\ Len(author_counts) = Min2(TopN, Cardinality(FilteredAuthors))
    /\ Cardinality(Listed) = Len(author_counts)
    /\ \A k \in 1..Len(author_counts) :
         /\ author_counts[k].key \in FilteredAuthors
         /\ author_counts[k].count = AuthorCount(author_counts[k].key)
    /\ \A j, k \in 1..Len(author_counts) :
         j < k => author_counts[j].count >= author_counts[k].count
    /\ \A a \in FilteredAuthors \ Listed : \A k \in 1..Len(author_counts) :
         AuthorCount(a) <= author_counts[k].count

\* C7 as amended: for a non-empty view the top-authors table has at most 10
\* entries, one per listed author, each with the number of kept rows of that
\* non-missing Author, counts non-increasing, no omitted author with a
\* larger count than a listed one; rows with a missing Author are not
\* counted.  The order among equal counts is left open.
C7_TopAuthors == out.top_authors = "output" => TopAuthorsTable

\* C7 as stated: the above, and authors with equal counts appear in the
\* order in which the filtered view first shows them.
C7_TiesFirstEncountered ==
    out.top_authors = "output"
        => /\ TopAuthorsTable
           /\ \A j, k \in 1..Len(author_counts) :
                (j < k /\ author_counts[j].count = author_counts[k].count)
                    => FirstSeen(author_counts[j].key) < FirstSeen(author_counts[k].key)

\* a table cut at TopN, with an author of two books leading it, ties below,
\* and a kept row without author
C7_Witness ==
    /\ out.top_authors = "output"
    /\ Cardinality(FilteredAuthors) > TopN
    /\ author_counts[1].count = 2
    /\ author_counts[2].count = author_counts[3].count
    /\ \E i \in Kept : df[i].Author = NaN

\* what C8 asks of one mean-by-group table over the labels in column by and
\* the values in column val of the kept rows
GroupTable(t, by, val) ==
    LET labels == {Cell(df[i], by) : i \in Kept}
        members(l) == {i \in Kept : Cell(df[i], by) = l}
        Total[S \in SUBSET Kept] ==
            IF S = {} THEN 0
            ELSE LET i == CHOOSE x \in S : TRUE
                 IN  Cell(df[i], val) + Total[S \ {i}]
    IN  /\ {t[k].key : k \in 1..Len(t)} = labels
        /\ Len(t) = Cardinality(labels)
        /\ \A k \in 1..Len(t) :
             /\ t[k].n = Cardinality(members(t[k].key))
             /\ t[k].n > 0
             /\ t[k].sum = Total[members(t[k].key)]
        /\ SumSeq([k \in 1..Len(t) |-> t[k].n]) = Len(filtered_df)
        /\ \A j, k \in 1..Len(t) :
             j < k => t[j].sum * t[k].n >= t[k].sum * t[j].n

\* C8: for a non-empty view each mean-by-group table has one entry per
\* label occurring in the view and none for a label without kept rows, the
\* groups' row counts add up to the view's row count, and the entries are in
\* descending order of mean.
C8_MeanByGroup ==
    /\ out.avg_price_type = "output"
         => GroupTable(avg_price_type, "Type", "Price")
    /\ out.avg_rating_genre = "output"
         => GroupTable(avg_rating_genre, "Main Genre", "Rating")

\* a run with a selected genre that has no kept row, and two Type groups
\* whose descending-mean order is the reverse of their label order
C8_Witness ==
    /\ out.avg_rating_genre = "output"
    /\ \E g \in selected_genres : \A i \in Kept : df[i].MainGenre # g
    /\ Len(avg_price_type) = 2
    /\ LabelRank(avg_price_type[1].key) > LabelRank(avg_price_type[2].key)
    /\ avg_price_type[1].sum * avg_price_type[2].n
         > avg_price_type[2].sum * avg_price_type[1].n

\* the parameters of the next run select at least what the current ones do
Widened ==
    /\ selected_types \subseteq selected_types'
    /\ selected_genres \subseteq selected_genres'
    /\ rating_range'[1] <= rating_range[1]
    /\ rating_range[2] <= rating_range'[2]
    /\ (exclude_outliers' => exclude_outliers)

\* C9: no run changes the loaded table, every run's view is the filter of
\* the whole table under that run's parameters, whatever was selected
\* before, and widening the parameters never loses a row of the view.
C9_FreshEachRun ==
    [][ /\ df' = df
        /\ columns' = columns
        /\ (FilterRan' => Kept' = ExpectedRows')
        /\ ((FilterRan /\ FilterRan' /\ Widened) => Kept \subseteq Kept')
      ]_vars

\* a run after the user narrowed the selection: rows of the table are
\* missing from the view that the default parameters keep
C9_Witness ==
    /\ FilterRan
    /\ ~DefaultParameters
    /\ filtered_df # << >>
    /\ \E i \in Rows \ Kept : Complete(i)

====
